---- MODULE Spec2Model ----
(***************************************************************************)
(* Model of package nagios (src/nagios.go): the ExitState record, the      *)
(* PerformanceData validation, the AddPerfData / AddError mutators and     *)
(* the ReturnCheckResults finalizer (panic interception, rendering of the  *)
(* output sections in order, single write to stdout, os.Exit).             *)
(*                                                                         *)
(* Go strings are modelled as sequences of one-character strings, so that  *)
(* concatenation, prefixes and the treatment of '%' by fmt.Fprintf are     *)
(* computed rather than assumed.                                           *)
(***************************************************************************)
EXTENDS Integers, Sequences, FiniteSets

VARIABLES
    es,          \* the ExitState value the caller owns (src/nagios.go:190-257)
    fault,       \* the value recover() yields in the deferred finalizer
    stackTrace,  \* local stackTrace of ReturnCheckResults (debug.Stack())
    pc,          \* "running" until os.Exit, then "exited"
    events,      \* externally visible effects, in order: callback, print, exit
    call,        \* the last library call: its operation, arguments and result
    pre,         \* es as it was when the last library call started
    log          \* history: the metrics accepted by AddPerfData, with the
                 \* skipValidate flag of the call that appended each

vars == <<es, fault, stackTrace, pc, events, call, pre, log>>

----------------------------------------------------------------------------
(* Bounds of the model. *)

MaxLen == 2      \* longest caller-chosen ServiceOutput
MaxBatch == 2    \* longest batch handed to AddPerfData
MaxPerf == 3     \* cap on len(es.perfData)
MaxErrors == 2   \* cap on len(es.Errors) before the finalizer runs

----------------------------------------------------------------------------
(* Constants of the package. *)

StateOKExitCode == 0
StateWARNINGExitCode == 1
StateCRITICALExitCode == 2
StateUNKNOWNExitCode == 3
StateDEPENDENTExitCode == 4

StateWARNINGLabel ==
    <<"W","A","R","N","I","N","G">>

StateCRITICALLabel ==
    <<"C","R","I","T","I","C","A","L">>

\* " \n"
CheckOutputEOL == <<" ", "\n">>

defaultThresholdsLabel ==
    <<"T","H","R","E","S","H","O","L","D","S">>

defaultErrorsLabel ==
    <<"E","R","R","O","R","S">>

defaultDetailedInfoLabel ==
    <<"D","E","T","A","I","L","E","D"," ","I","N","F","O">>

(* Error values: a sentinel has an id of its own; an error built by        *)
(* fmt.Errorf("%w: ...") has id "wrapped" and names the sentinel it wraps. *)
MkError(id, msg, wraps) == [id |-> id, msg |-> msg, wraps |-> wraps]

\* the nil error
NoError == MkError("nil", <<>>, "none")

\* errors.New("plugin crash/panic detected")
ErrPanicDetected ==
    MkError("ErrPanicDetected",
    <<"p","l","u","g","i","n"," ","c","r","a","s","h","/","p","a","n","i",
      "c"," ","d","e","t","e","c","t","e","d">>, "none")

\* errors.New("provided performance data missing required label")
ErrPerformanceDataMissingLabel ==
    MkError("ErrPerformanceDataMissingLabel",
    <<"p","r","o","v","i","d","e","d"," ","p","e","r","f","o","r","m","a",
      "n","c","e"," ","d","a","t","a"," ","m","i","s","s","i","n","g"," ",
      "r","e","q","u","i","r","e","d"," ","l","a","b","e","l">>, "none")

\* errors.New("provided performance data missing required value")
ErrPerformanceDataMissingValue ==
    MkError("ErrPerformanceDataMissingValue",
    <<"p","r","o","v","i","d","e","d"," ","p","e","r","f","o","r","m","a",
      "n","c","e"," ","d","a","t","a"," ","m","i","s","s","i","n","g"," ",
      "r","e","q","u","i","r","e","d"," ","v","a","l","u","e">>, "none")

\* errors.New("no performance data provided")
ErrNoPerformanceDataProvided ==
    MkError("ErrNoPerformanceDataProvided",
    <<"n","o"," ","p","e","r","f","o","r","m","a","n","c","e"," ","d","a",
      "t","a"," ","p","r","o","v","i","d","e","d">>, "none")

----------------------------------------------------------------------------
(* PerformanceData and its validation. *)

PerformanceData(label, value, uom, warn, crit, min, max) ==
    [Label |-> label, Value |-> value, UnitOfMeasurement |-> uom,
     Warn |-> warn, Crit |-> crit, Min |-> min, Max |-> max]

\* A mutant of Validate: the two cases of the switch in the other order.
Validate_ValueFirst(pd) ==
    IF pd.Value = <<>> THEN ErrPerformanceDataMissingValue
    ELSE IF pd.Label = <<>> THEN ErrPerformanceDataMissingLabel
    ELSE NoError

Validate(pd) ==
    IF pd.Label = <<>> THEN ErrPerformanceDataMissingLabel
    ELSE IF pd.Value = <<>> THEN ErrPerformanceDataMissingValue
    ELSE NoError

----------------------------------------------------------------------------
(* ExitState. *)

\* A nil BrandingCallback.
NilCallback == [set |-> FALSE, result |-> <<>>]

\* A BrandingCallback that returns text.
Callback(text) == [set |-> TRUE, result |-> text]

\* The zero value of ExitState.
ZeroExitState ==
    [LastError |-> NoError,
     Errors |-> <<>>,
     ExitStatusCode |-> 0,
     ServiceOutput |-> <<>>,
     LongServiceOutput |-> <<>>,
     perfData |-> <<>>,
     WarningThreshold |-> <<>>,
     CriticalThreshold |-> <<>>,
     thresholdsLabel |-> <<>>,
     errorsLabel |-> <<>>,
     detailedInfoLabel |-> <<>>,
     hideThresholdsSection |-> FALSE,
     hideErrorsSection |-> FALSE,
     BrandingCallback |-> NilCallback]

\* No panic is unwinding: recover() yields nil.
NoFault == [kind |-> "none", text |-> <<>>]

\* The record of "no library call made yet".
NoCall ==
    [op |-> "none", skipValidate |-> FALSE, pd |-> <<>>, errs |-> <<>>,
     err |-> NoError]

----------------------------------------------------------------------------
(* AddPerfData. *)

\* The loop of lines 375-379: the error of the first metric, from index i
\* on, that fails Validate; the nil error when none does.
RECURSIVE FirstValidationError(_, _)
FirstValidationError(pd, i) ==
    IF i > Len(pd) THEN NoError
    ELSE IF Validate(pd[i]) # NoError THEN Validate(pd[i])
    ELSE FirstValidationError(pd, i + 1)

\* The longest prefix of pd, from index i on, whose metrics all validate.
RECURSIVE ValidPrefix(_, _)
ValidPrefix(pd, i) ==
    IF i > Len(pd) \/ Validate(pd[i]) # NoError THEN <<>>
    ELSE <<pd[i]>> \o ValidPrefix(pd, i + 1)

\* A mutant of AddPerfDataResult: each metric is appended as soon as it has
\* validated, so the metrics before the first invalid one stay appended.
AddPerfDataResult_PartialAppend(perfData, skipValidate, pd) ==
    IF Len(pd) = 0
    THEN [perfData |-> perfData, err |-> ErrNoPerformanceDataProvided]
    ELSE IF ~skipValidate /\ FirstValidationError(pd, 1) # NoError
    THEN [perfData |-> perfData \o ValidPrefix(pd, 1),
          err |-> FirstValidationError(pd, 1)]
    ELSE [perfData |-> perfData \o pd, err |-> NoError]

\* A mutant of AddPerfDataResult: the batch is put in front of the metrics
\* recorded earlier.
AddPerfDataResult_Prepend(perfData, skipValidate, pd) ==
    IF Len(pd) = 0
    THEN [perfData |-> perfData, err |-> ErrNoPerformanceDataProvided]
    ELSE IF ~skipValidate /\ FirstValidationError(pd, 1) # NoError
    THEN [perfData |-> perfData, err |-> FirstValidationError(pd, 1)]
    ELSE [perfData |-> pd \o perfData, err |-> NoError]

\* A mutant of AddPerfDataResult: the empty-batch check is made inside the
\* validation branch, so an empty batch with skipValidate set is accepted.
AddPerfDataResult_EmptyCheckInValidation(perfData, skipValidate, pd) ==
    IF ~skipValidate /\ Len(pd) = 0
    THEN [perfData |-> perfData, err |-> ErrNoPerformanceDataProvided]
    ELSE IF ~skipValidate /\ FirstValidationError(pd, 1) # NoError
    THEN [perfData |-> perfData, err |-> FirstValidationError(pd, 1)]
    ELSE [perfData |-> perfData \o pd, err |-> NoError]

\* A mutant of AddPerfDataResult: the validation loop starts at the second
\* metric of the batch.
AddPerfDataResult_SkipFirst(perfData, skipValidate, pd) ==
    IF Len(pd) = 0
    THEN [perfData |-> perfData, err |-> ErrNoPerformanceDataProvided]
    ELSE IF ~skipValidate /\ FirstValidationError(pd, 2) # NoError
    THEN [perfData |-> perfData, err |-> FirstValidationError(pd, 2)]
    ELSE [perfData |-> perfData \o pd, err |-> NoError]

\* The new es.perfData and the returned error of AddPerfData.
AddPerfDataResult(perfData, skipValidate, pd) ==
    IF Len(pd) = 0
    THEN [perfData |-> perfData, err |-> ErrNoPerformanceDataProvided]
    ELSE IF ~skipValidate /\ FirstValidationError(pd, 1) # NoError
    THEN [perfData |-> perfData, err |-> FirstValidationError(pd, 1)]
    ELSE [perfData |-> perfData \o pd, err |-> NoError]

\* The history entries of a batch appended by a call with flag skipValidate.
LogOf(skipValidate, pd) ==
    [i \in 1..Len(pd) |-> [pd |-> pd[i], skip |-> skipValidate]]

\* es.AddPerfData(skipValidate, pd...)
AddPerfData(skipValidate, pd) ==
    /\ pc = "running"
    /\ fault = NoFault
    /\ Len(es.perfData) + Len(pd) <= MaxPerf
    /\ LET r == AddPerfDataResult(es.perfData, skipValidate, pd) IN
        /\ es' = [es EXCEPT !.perfData = r.perfData]
        /\ call' = [NoCall EXCEPT !.op = "AddPerfData",
                                  !.skipValidate = skipValidate,
                                  !.pd = pd, !.err = r.err]
        /\ log' = IF r.err = NoError THEN log \o LogOf(skipValidate, pd)
                  ELSE log
    /\ pre' = es
    /\ UNCHANGED <<fault, stackTrace, pc, events>>

\* pd.Validate(), called by client code on a value of its own.
CallValidate(pd) ==
    /\ pc = "running"
    /\ fault = NoFault
    /\ call' = [NoCall EXCEPT !.op = "Validate", !.pd = <<pd>>,
                              !.err = Validate(pd)]
    /\ pre' = es
    /\ UNCHANGED <<es, fault, stackTrace, pc, events, log>>

----------------------------------------------------------------------------
(* AddError. *)

\* append(es.Errors, err...)
AddErrorResult(errors, errs) == errors \o errs

\* es.AddError(err...)
AddError(errs) ==
    /\ pc = "running"
    /\ fault = NoFault
    /\ Len(es.Errors) + Len(errs) <= MaxErrors
    /\ es' = [es EXCEPT !.Errors = AddErrorResult(es.Errors, errs)]
    /\ call' = [NoCall EXCEPT !.op = "AddError", !.errs = errs]
    /\ pre' = es
    /\ UNCHANGED <<fault, stackTrace, pc, events, log>>

----------------------------------------------------------------------------
(* fmt, as far as ReturnCheckResults uses it. *)

\* The flag characters fmt's doPrintf consumes after a '%'.
FmtFlags == {"#", "0", "+", "-", " "}

\* The first index from i on that holds no flag character.
RECURSIVE SkipFlags(_, _)
SkipFlags(format, i) ==
    IF i <= Len(format) /\ format[i] \in FmtFlags
    THEN SkipFlags(format, i + 1)
    ELSE i

\* "%!(NOVERB)"
noVerbString == <<"%","!","(","N","O","V","E","R","B",")">>

\* "(MISSING)"
missingString == <<"(","M","I","S","S","I","N","G",")">>

\* "(BADINDEX)"
badIndexString == <<"(","B","A","D","I","N","D","E","X",")">>

\* "%!(BADWIDTH)"
badWidthString == <<"%","!","(","B","A","D","W","I","D","T","H",")">>

\* "%!(BADPREC)"
badPrecString == <<"%","!","(","B","A","D","P","R","E","C",")">>

\* The decimal digits, and the value of one.
DecimalDigits == {"0", "1", "2", "3", "4", "5", "6", "7", "8", "9"}

DigitValue(c) ==
    CHOOSE d \in 0..9 :
        <<"0","1","2","3","4","5","6","7","8","9">>[d + 1] = c

\* fmt's tooLarge: a number beyond a million is not a width.
tooLarge(x) == x > 1000000 \/ x < -1000000

\* The loop of fmt's parsenum, at index i with the number read so far.
RECURSIVE parsenumLoop(_, _, _, _, _)
parsenumLoop(s, i, end, num, isnum) ==
    IF i < end /\ s[i] \in DecimalDigits
    THEN IF tooLarge(num)
         THEN [num |-> 0, isnum |-> FALSE, newi |-> end]
         ELSE parsenumLoop(s, i + 1, end, num * 10 + DigitValue(s[i]), TRUE)
    ELSE [num |-> num, isnum |-> isnum, newi |-> i]

\* fmt's parsenum: the decimal number at s[start..end-1], whether there is
\* one, and the index after it.
parsenum(s, start, end) ==
    IF start >= end THEN [num |-> 0, isnum |-> FALSE, newi |-> end]
    ELSE parsenumLoop(s, start, end, 0, FALSE)

\* fmt's parseArgNumber for the '[' at index i of format: the argument
\* index, the number of characters to skip, and whether "[n]" was well
\* formed.
parseArgNumber(format, i) ==
    IF Len(format) - i + 1 < 3
    THEN [index |-> 0, wid |-> 1, ok |-> FALSE]
    ELSE IF \E k \in (i + 1)..Len(format) : format[k] = "]"
    THEN LET k == CHOOSE k \in (i + 1)..Len(format) :
                    /\ format[k] = "]"
                    /\ \A j \in (i + 1)..(k - 1) : format[j] # "]"
             n == parsenum(format, i + 1, k)
         IN  IF ~n.isnum \/ n.newi # k
             THEN [index |-> 0, wid |-> k - i + 1, ok |-> FALSE]
             ELSE [index |-> n.num - 1, wid |-> k - i + 1, ok |-> TRUE]
    ELSE [index |-> 0, wid |-> 1, ok |-> FALSE]

\* fmt's argNumber with no operands: the index after an "[n]" at index i,
\* whether one was found, and whether the argument number is still good
\* (with no operands every index is out of range).
argNumber(format, i) ==
    IF i > Len(format) \/ format[i] # "["
    THEN [newi |-> i, found |-> FALSE, good |-> TRUE]
    ELSE LET r == parseArgNumber(format, i) IN
         [newi |-> i + r.wid, found |-> r.ok, good |-> FALSE]

(* The steps of doPrintf for one verb, with no operands. Each step takes   *)
(* the state of the scan, [i, afterIndex, goodArgNum, out] (the index      *)
(* reached, whether the previous item was an "[n]", whether the argument   *)
(* number is still good, the text written so far), and returns the next.   *)

\* "Do we have an explicit argument index?", at index i.
indexStep(format, i) ==
    LET a == argNumber(format, i) IN
    [i |-> a.newi, afterIndex |-> a.found, goodArgNum |-> a.good,
     out |-> <<>>]

\* "Do we have width?": a '*' finds no operand and writes "%!(BADWIDTH)";
\* otherwise the digits of a width are read.
widthStep(format, st) ==
    IF st.i <= Len(format) /\ format[st.i] = "*"
    THEN [st EXCEPT !.i = @ + 1, !.afterIndex = FALSE,
                    !.out = @ \o badWidthString]
    ELSE LET w == parsenum(format, st.i, Len(format) + 1) IN
         [st EXCEPT !.i = w.newi,
                    !.goodArgNum = @ /\ ~(st.afterIndex /\ w.isnum)]

\* "Do we have precision?": after a '.', an "[n]", then a '*' (no operand:
\* "%!(BADPREC)") or the digits of a precision.
precisionStep(format, st) ==
    IF st.i <= Len(format) /\ format[st.i] = "."
    THEN LET a == argNumber(format, st.i + 1) IN
         IF a.newi <= Len(format) /\ format[a.newi] = "*"
         THEN [i |-> a.newi + 1, afterIndex |-> FALSE,
               goodArgNum |-> st.goodArgNum /\ ~st.afterIndex /\ a.good,
               out |-> st.out \o badPrecString]
         ELSE [i |-> parsenum(format, a.newi, Len(format) + 1).newi,
               afterIndex |-> a.found,
               goodArgNum |-> st.goodArgNum /\ ~st.afterIndex /\ a.good,
               out |-> st.out]
    ELSE st

\* The argument index right before the verb, looked for unless the
\* previous item was one.
lastIndexStep(format, st) ==
    IF st.afterIndex THEN st
    ELSE LET a == argNumber(format, st.i) IN
         [st EXCEPT !.i = a.newi, !.afterIndex = a.found,
                    !.goodArgNum = @ /\ a.good]

\* The verb: none left gives "%!(NOVERB)" and ends the scan; '%' gives
\* "%"; a bad argument number "%!c(BADINDEX)"; else "%!c(MISSING)".
verbStep(format, st) ==
    IF st.i > Len(format)
    THEN [text |-> st.out \o noVerbString, next |-> Len(format) + 1]
    ELSE [text |-> st.out \o
                   (IF format[st.i] = "%" THEN <<"%">>
                    ELSE IF ~st.goodArgNum
                    THEN <<"%", "!", format[st.i]>> \o badIndexString
                    ELSE <<"%", "!", format[st.i]>> \o missingString),
          next |-> st.i + 1]

\* One verb of the format, whose '%' is at index p: the text written and
\* the index to go on from.
doVerb(format, p) ==
    verbStep(format,
      lastIndexStep(format,
        precisionStep(format,
          widthStep(format,
            indexStep(format, SkipFlags(format, p + 1))))))

\* The index of the first '%' of format from index i on; Len(format) + 1
\* when there is none.
NextPercent(format, i) ==
    IF \E k \in i..Len(format) : format[k] = "%"
    THEN CHOOSE k \in i..Len(format) :
            /\ format[k] = "%"
            /\ \A j \in i..(k - 1) : format[j] # "%"
    ELSE Len(format) + 1

(* fmt.Fprintf(w, format) with no operands, from index i of format on:     *)
(* text up to a '%' is copied, then the verb at the '%' is processed:      *)
(* "%%" gives "%"; a '%' with nothing but flags, width and precision up to *)
(* the end gives "%!(NOVERB)"; a '*' gives "%!(BADWIDTH)" or               *)
(* "%!(BADPREC)"; a verb c after an "[n]" gives "%!c(BADINDEX)"; any other *)
(* verb c finds no operand and gives "%!c(MISSING)".                       *)
RECURSIVE doPrintf(_, _)
doPrintf(format, i) ==
    LET p == NextPercent(format, i) IN
    SubSeq(format, i, p - 1) \o
    (IF p > Len(format) THEN <<>>
     ELSE LET v == doVerb(format, p) IN
          v.text \o (IF v.next > Len(format) THEN <<>>
                     ELSE doPrintf(format, v.next)))

\* fmt.Fprintf(&output, es.ServiceOutput): the text added to the builder.
FprintfNoArgs(format) == doPrintf(format, 1)

\* The operand err under the verb %s: the text of a string, the Error()
\* text of an error, and "%!s(int=N)" for an int.
FormatS(v) ==
    IF v.kind = "int"
    THEN <<"%","!","s","(","i","n","t","=">> \o v.text \o <<")">>
    ELSE v.text

\* strconv.Itoa for 0..99.
Digit(d) == <<"0","1","2","3","4","5","6","7","8","9">>[d + 1]
Itoa(n) == IF n < 10 THEN <<Digit(n)>> ELSE <<Digit(n \div 10), Digit(n % 10)>>

----------------------------------------------------------------------------
(* The output sections. Each takes the text built so far and returns it    *)
(* with its section added.                                                 *)

\* A blank line after the text so far: the end of the current line and an
\* empty line.
BlankLine == CheckOutputEOL \o CheckOutputEOL

\* The header text of the three labelled sections.
getErrorsLabelText(e) ==
    IF e.errorsLabel # <<>> THEN e.errorsLabel ELSE defaultErrorsLabel

getThresholdsLabelText(e) ==
    IF e.thresholdsLabel # <<>> THEN e.thresholdsLabel
    ELSE defaultThresholdsLabel

getDetailedInfoLabelText(e) ==
    IF e.detailedInfoLabel # <<>> THEN e.detailedInfoLabel
    ELSE defaultDetailedInfoLabel

\* The numbered lines of the errors section, from error i on.
RECURSIVE ErrorLines(_, _)
ErrorLines(errors, i) ==
    IF i > Len(errors) THEN <<>>
    ELSE Itoa(i) \o <<":", " ">> \o errors[i].msg \o CheckOutputEOL
         \o ErrorLines(errors, i + 1)

handleErrorsSection(e, w) ==
    IF ~e.hideErrorsSection /\ Len(e.Errors) > 0
    THEN w \o BlankLine \o getErrorsLabelText(e) \o CheckOutputEOL
           \o ErrorLines(e.Errors, 1)
    ELSE w

handleThresholdsSection(e, w) ==
    IF /\ ~e.hideThresholdsSection
       /\ (e.WarningThreshold # <<>> \/ e.CriticalThreshold # <<>>)
    THEN w \o BlankLine \o getThresholdsLabelText(e) \o CheckOutputEOL
           \o (IF e.WarningThreshold # <<>>
               THEN StateWARNINGLabel \o <<":", " ">> \o e.WarningThreshold
                    \o CheckOutputEOL
               ELSE <<>>)
           \o (IF e.CriticalThreshold # <<>>
               THEN StateCRITICALLabel \o <<":", " ">> \o e.CriticalThreshold
                    \o CheckOutputEOL
               ELSE <<>>)
    ELSE w

handleLongServiceOutput(e, w) ==
    IF e.LongServiceOutput # <<>>
    THEN w \o BlankLine \o getDetailedInfoLabelText(e) \o CheckOutputEOL
           \o e.LongServiceOutput
    ELSE w

\* The fixed header of the performance data section.
PerfDataHeader == <<"|">>

\* label=value[UOM];warn;crit;min;max
PerfDataLine(m) ==
    m.Label \o <<"=">> \o m.Value \o m.UnitOfMeasurement
    \o <<";">> \o m.Warn \o <<";">> \o m.Crit
    \o <<";">> \o m.Min \o <<";">> \o m.Max

RECURSIVE PerfDataLines(_, _)
PerfDataLines(perfData, i) ==
    IF i > Len(perfData) THEN <<>>
    ELSE PerfDataLine(perfData[i]) \o CheckOutputEOL
         \o PerfDataLines(perfData, i + 1)

handlePerformanceData(e, w) ==
    IF Len(e.perfData) > 0
    THEN w \o BlankLine \o PerfDataHeader \o CheckOutputEOL
           \o PerfDataLines(e.perfData, 1)
    ELSE w

----------------------------------------------------------------------------
(* ReturnCheckResults. *)

\* The grave accent (U+0060), which a TLA+ string cannot hold: the model
\* writes this one character as "GRAVE".
Grave == "GRAVE"

\* The fence of a Markdown code block: three grave accents.
Fence == <<Grave, Grave, Grave>>

\* fmt.Errorf("%w: %s", ErrPanicDetected, err)
PanicError(err) ==
    MkError("wrapped", ErrPanicDetected.msg \o <<":", " ">> \o FormatS(err),
            ErrPanicDetected.id)

\* fmt.Sprintf("%s: plugin crash detected. See details via web UI or run
\* plugin manually via CLI.", StateCRITICALLabel)
CrashServiceOutput ==
    StateCRITICALLabel \o
    <<":"," ","p","l","u","g","i","n"," ","c","r","a","s","h"," ","d","e",
      "t","e","c","t","e","d","."," ","S","e","e"," ","d","e","t","a","i",
      "l","s"," ","v","i","a"," ","w","e","b"," ","U","I"," ","o","r"," ",
      "r","u","n"," ","p","l","u","g","i","n"," ","m","a","n","u","a","l",
      "l","y"," ","v","i","a"," ","C","L","I",".">>

\* fmt.Sprintf("```%s%s%s%s%s%s```", EOL, err, EOL, EOL, stackTrace, EOL)
CrashLongServiceOutput(err, stack) ==
    Fence \o CheckOutputEOL \o FormatS(err) \o CheckOutputEOL
    \o CheckOutputEOL \o stack \o CheckOutputEOL \o Fence

\* A mutant of OverrideOnPanic: the crash details are added to the caller's
\* LongServiceOutput and the caller's exit code is kept when it already
\* reports a problem.
OverrideOnPanic_Merge(e, err, stack) ==
    [e EXCEPT
        !.Errors = AddErrorResult(e.Errors, <<PanicError(err)>>),
        !.ServiceOutput = CrashServiceOutput,
        !.LongServiceOutput =
            e.LongServiceOutput \o CrashLongServiceOutput(err, stack),
        !.ExitStatusCode =
            IF e.ExitStatusCode = StateOKExitCode
            THEN StateCRITICALExitCode ELSE e.ExitStatusCode]

\* A mutant of OverrideOnPanic: the ExitState is reset to a fresh one that
\* holds the crash details only.
OverrideOnPanic_Reset(e, err, stack) ==
    [ZeroExitState EXCEPT
        !.Errors = <<PanicError(err)>>,
        !.ServiceOutput = CrashServiceOutput,
        !.LongServiceOutput = CrashLongServiceOutput(err, stack),
        !.ExitStatusCode = StateCRITICALExitCode]

\* Lines 297-326: the ExitState after a panic with payload err was
\* recovered and the stack trace stack was captured.
OverrideOnPanic(e, err, stack) ==
    [e EXCEPT
        !.Errors = AddErrorResult(e.Errors, <<PanicError(err)>>),
        !.ServiceOutput = CrashServiceOutput,
        !.LongServiceOutput = CrashLongServiceOutput(err, stack),
        !.ExitStatusCode = StateCRITICALExitCode]

\* Lines 350-352: the branding text added to the builder.
RenderBranding(e, w) ==
    IF e.BrandingCallback.set
    THEN w \o CheckOutputEOL \o e.BrandingCallback.result \o CheckOutputEOL
    ELSE w

\* A mutant of Render: performance data is emitted before the branding.
Render_PerfDataBeforeBranding(e) ==
    RenderBranding(e,
      handlePerformanceData(e,
        handleLongServiceOutput(e,
          handleThresholdsSection(e,
            handleErrorsSection(e,
              FprintfNoArgs(e.ServiceOutput))))))

\* Lines 340-354: the contents of the builder output, built in this order:
\* summary, errors, thresholds, long output, branding, performance data.
Render(e) ==
    handlePerformanceData(e,
      RenderBranding(e,
        handleLongServiceOutput(e,
          handleThresholdsSection(e,
            handleErrorsSection(e,
              FprintfNoArgs(e.ServiceOutput))))))

Event(op, text, code) == [op |-> op, text |-> text, code |-> code]

\* A mutant of Effects: an exit code outside 0..4 is reported as UNKNOWN.
Effects_ClampCode(e) ==
    (IF e.BrandingCallback.set THEN <<Event("callback", <<>>, 0)>> ELSE <<>>)
    \o <<Event("print", Render(e), 0),
         Event("exit", <<>>,
               IF e.ExitStatusCode \in StateOKExitCode..StateDEPENDENTExitCode
               THEN e.ExitStatusCode ELSE StateUNKNOWNExitCode)>>

\* Lines 350-359: what the process does with the final ExitState e, in
\* order: the call of the branding callback (if set), the one fmt.Print of
\* the builder's contents, os.Exit(es.ExitStatusCode).
Effects(e) ==
    (IF e.BrandingCallback.set THEN <<Event("callback", <<>>, 0)>> ELSE <<>>)
    \o <<Event("print", Render(e), 0),
         Event("exit", <<>>, e.ExitStatusCode)>>

\* Client code panics with the value payload; the deferred finalizer is
\* what runs next.
Panic(payload) ==
    /\ pc = "running"
    /\ fault = NoFault
    /\ fault' = payload
    /\ UNCHANGED <<es, stackTrace, pc, events, call, pre, log>>

\* es.ReturnCheckResults(), deferred by client code; stack is what
\* debug.Stack() returns when a panic is recovered.
ReturnCheckResults(stack) ==
    /\ pc = "running"
    /\ LET final == IF fault # NoFault
                    THEN OverrideOnPanic(es, fault, stack)
                    ELSE es
       IN /\ es' = final
          /\ events' = events \o Effects(final)
    /\ stackTrace' = IF fault # NoFault THEN stack ELSE stackTrace
    /\ pc' = "exited"
    /\ call' = [NoCall EXCEPT !.op = "ReturnCheckResults"]
    /\ pre' = es
    /\ UNCHANGED <<fault, log>>

----------------------------------------------------------------------------
(* Inputs. *)

\* All sequences over S of length at most n.
SeqsUpTo(S, n) == UNION {[1..k -> S] : k \in 0..n}

\* Field values of the metrics handed to AddPerfData and Validate.
Labels == {<<>>, <<"t">>}
Values == {<<>>, <<"1">>}
Optionals == {<<>>, <<"5">>}

\* The zero value of PerformanceData.
ZeroMetric == PerformanceData(<<>>, <<>>, <<>>, <<>>, <<>>, <<>>, <<>>)

\* The metrics of Example_emitPerformanceData (Label and Value set, the
\* rest empty): two valid ones, and the three ways to lack Label or Value.
BatchMetrics ==
    {PerformanceData(<<"t">>, <<"1">>, <<>>, <<>>, <<>>, <<>>, <<>>),
     PerformanceData(<<"d">>, <<"2">>, <<>>, <<>>, <<>>, <<>>, <<>>),
     PerformanceData(<<>>, <<"1">>, <<>>, <<>>, <<>>, <<>>, <<>>),
     PerformanceData(<<"t">>, <<>>, <<>>, <<>>, <<>>, <<>>, <<>>),
     PerformanceData(<<>>, <<>>, <<>>, <<>>, <<>>, <<>>, <<>>)}

\* Metrics with every field empty or set.
AllMetrics ==
    {PerformanceData(l, v, u, w, c, mn, mx) :
        l \in Labels, v \in Values, u \in {<<>>, <<"m","s">>},
        w \in Optionals, c \in Optionals, mn \in Optionals, mx \in Optionals}

Batches == SeqsUpTo(BatchMetrics, MaxBatch)

\* The state right after the caller has constructed the ExitState e.
InitWith(e) ==
    /\ es = e
    /\ fault = NoFault
    /\ stackTrace = <<>>
    /\ pc = "running"
    /\ events = <<>>
    /\ call = NoCall
    /\ pre = e
    /\ log = <<>>

----------------------------------------------------------------------------
(* Specification of the performance-data mutator. *)

InitPerf == InitWith(ZeroExitState)

NextPerf == \E skipValidate \in BOOLEAN, pd \in Batches :
                AddPerfData(skipValidate, pd)

SpecPerf == InitPerf /\ [][NextPerf]_vars

(* Specification of PerformanceData.Validate as a pure function. *)

NextValidate == \E pd \in AllMetrics : CallValidate(pd)

SpecValidate == InitPerf /\ [][NextValidate]_vars

----------------------------------------------------------------------------
(* Specification of the finalizer over the caller's summary, long output   *)
(* and exit code.                                                          *)

\* The characters of a caller-chosen ServiceOutput: a letter, the percent
\* sign, a letter that is a verb of fmt, the blank (a flag of fmt), a digit
\* (a width) and the full stop (a precision).
Chars == {"K", "%", "d", " ", "5", "."}

\* Summaries that reach the other steps of fmt: "%5d", "50%-2", "95%. ok",
\* "%[1]d", "%[x]d", "%*d", "%.*d", "%5.2f%%", "%[1", "%12345678d".
SampleSummaries ==
    {<<"%", "5", "d">>,
     <<"5", "0", "%", "-", "2">>,
     <<"9", "5", "%", ".", " ", "o", "k">>,
     <<"%", "[", "1", "]", "d">>,
     <<"%", "[", "x", "]", "d">>,
     <<"%", "*", "d">>,
     <<"%", ".", "*", "d">>,
     <<"%", "5", ".", "2", "f", "%", "%">>,
     <<"%", "[", "1">>,
     <<"%", "1", "2", "3", "4", "5", "6", "7", "8", "d">>}

ServiceOutputs == SeqsUpTo(Chars, MaxLen) \cup SampleSummaries

LongServiceOutputs == {<<>>, <<"L", "%", "d">>}

\* The five Nagios states, and integers that are none of them.
ExitCodes ==
    {-1, StateOKExitCode, StateWARNINGExitCode, StateCRITICALExitCode,
     StateUNKNOWNExitCode, StateDEPENDENTExitCode, 5, 256}

\* What client code panics with: a string, an error, an int.
Payloads ==
    {[kind |-> "string", text |-> <<"b", "%", "d">>],
     [kind |-> "error", text |-> <<"n", "i", "l">>],
     [kind |-> "int", text |-> <<"7">>]}

\* What debug.Stack() may return: some non-empty text.
StackTraces == {<<"g">>, <<"g", "\n", "m">>}

InitSummary ==
    \E so \in ServiceOutputs, lso \in LongServiceOutputs, c \in ExitCodes :
        InitWith([ZeroExitState EXCEPT !.ServiceOutput = so,
                                       !.LongServiceOutput = lso,
                                       !.ExitStatusCode = c])

NextSummary ==
    \/ \E payload \in Payloads : Panic(payload)
    \/ \E stack \in StackTraces : ReturnCheckResults(stack)

SpecSummary == InitSummary /\ [][NextSummary]_vars

(* Specification of the finalizer over the fields that decide which        *)
(* sections are rendered.                                                  *)

CustomLabels == {<<>>, <<"X">>}
Thresholds == {<<>>, <<"9">>}
Callbacks == {NilCallback, Callback(<<"v", "1">>)}

\* Errors client code records.
ErrDiskFull == MkError("client", <<"f", "u", "l", "l">>, "none")
ErrTimeout == MkError("client", <<"t", "/", "o">>, "none")
ErrorBatches == {<<ErrDiskFull>>, <<ErrTimeout, ErrDiskFull>>}

\* The batch of Example_emitPerformanceData, cut to two metrics.
ExampleBatch ==
    <<PerformanceData(<<"t">>, <<"1">>, <<"m", "s">>, <<>>, <<>>, <<>>, <<>>),
      PerformanceData(<<"d">>, <<"2">>, <<>>, <<"5">>, <<>>, <<"0">>, <<>>)>>

InitSections ==
    \E so \in {<<"O", "K">>, <<"1", "%">>},
       lso \in LongServiceOutputs, wt \in Thresholds, ct \in Thresholds,
       tl \in CustomLabels, el \in CustomLabels, dl \in CustomLabels,
       ht \in BOOLEAN, he \in BOOLEAN, cb \in Callbacks :
        InitWith([ZeroExitState EXCEPT
                    !.ServiceOutput = so,
                    !.LongServiceOutput = lso,
                    !.ExitStatusCode = StateWARNINGExitCode,
                    !.WarningThreshold = wt,
                    !.CriticalThreshold = ct,
                    !.thresholdsLabel = tl,
                    !.errorsLabel = el,
                    !.detailedInfoLabel = dl,
                    !.hideThresholdsSection = ht,
                    !.hideErrorsSection = he,
                    !.BrandingCallback = cb])

NextSections ==
    \/ \E errs \in ErrorBatches : AddError(errs)
    \/ AddPerfData(FALSE, ExampleBatch)
    \/ \E payload \in Payloads : Panic(payload)
    \/ \E stack \in StackTraces : ReturnCheckResults(stack)

SpecSections == InitSections /\ [][NextSections]_vars

(* The whole package: every operation, over small inputs. *)

Init ==
    \E so \in {<<>>, <<"O", "K">>}, cb \in Callbacks :
        InitWith([ZeroExitState EXCEPT !.ServiceOutput = so,
                                       !.BrandingCallback = cb])

Next ==
    \/ \E skipValidate \in BOOLEAN,
          pd \in {<<>>, ExampleBatch, <<ExampleBatch[1], ZeroMetric>>} :
            AddPerfData(skipValidate, pd)
    \/ \E pd \in BatchMetrics : CallValidate(pd)
    \/ \E errs \in ErrorBatches : AddError(errs)
    \/ \E payload \in Payloads : Panic(payload)
    \/ \E stack \in StackTraces : ReturnCheckResults(stack)

Spec == Init /\ [][Next]_vars

----------------------------------------------------------------------------
(* Helpers of the claims. *)

\* The metric m lacks its Label or its Value.
Lacking(m) == m.Label = <<>> \/ m.Value = <<>>

\* The smallest index of a metric of pd that lacks its Label or its Value.
FirstLacking(pd) ==
    CHOOSE k \in 1..Len(pd) :
        /\ Lacking(pd[k])
        /\ \A j \in 1..(k - 1) : ~Lacking(pd[j])

\* s is a prefix of t.
IsPrefix(s, t) == Len(s) <= Len(t) /\ SubSeq(t, 1, Len(s)) = s

\* s occurs in t at offset k (0 for the start).
OccursAt(s, t, k) ==
    k + Len(s) <= Len(t) /\ SubSeq(t, k + 1, k + Len(s)) = s

\* s occurs somewhere in t.
Contains(s, t) == \E k \in 0..Len(t) : OccursAt(s, t, k)

----------------------------------------------------------------------------
(* Claims about AddPerfData and Validate. *)

(* C2: a validating AddPerfData call whose non-empty batch holds a metric   *)
(* with an empty Label or Value appends nothing (the whole ExitState is as  *)
(* it was before the call) and returns the validation error of the first    *)
(* such metric in batch order.                                              *)
C2_AllOrNothing ==
    (/\ call.op = "AddPerfData"
     /\ ~call.skipValidate
     /\ Len(call.pd) > 0
     /\ \E i \in 1..Len(call.pd) : Lacking(call.pd[i]))
    => /\ es.perfData = pre.perfData
       /\ es = pre
       /\ LET m == call.pd[FirstLacking(call.pd)] IN
            call.err = IF m.Label = <<>>
                       THEN ErrPerformanceDataMissingLabel
                       ELSE ErrPerformanceDataMissingValue

\* C2's case: metrics were recorded, and a validating call was handed a
\* valid metric followed by one without a Value.
C2_Witness ==
    /\ call.op = "AddPerfData"
    /\ ~call.skipValidate
    /\ Len(call.pd) = 2
    /\ ~Lacking(call.pd[1])
    /\ call.pd[2].Label # <<>>
    /\ call.pd[2].Value = <<>>
    /\ Len(pre.perfData) > 0
    /\ call.err = ErrPerformanceDataMissingValue

(* C3: an AddPerfData call whose non-empty batch holds only metrics with    *)
(* Label and Value returns no error and leaves perfData equal to its prior  *)
(* contents followed by the batch in the batch's order; perfData is always  *)
(* the concatenation, in call order, of the batches of the successful calls.*)
C3_AppendInOrder ==
    /\ (/\ call.op = "AddPerfData"
        /\ Len(call.pd) > 0
        /\ \A i \in 1..Len(call.pd) : ~Lacking(call.pd[i]))
       => /\ call.err = NoError
          /\ es.perfData = pre.perfData \o call.pd
    /\ Len(es.perfData) = Len(log)
    /\ \A i \in 1..Len(log) : es.perfData[i] = log[i].pd

\* C3's case: a batch of two different valid metrics was appended after an
\* earlier, different, metric.
C3_Witness ==
    /\ call.op = "AddPerfData"
    /\ call.err = NoError
    /\ Len(call.pd) = 2
    /\ ~Lacking(call.pd[1])
    /\ ~Lacking(call.pd[2])
    /\ call.pd[1] # call.pd[2]
    /\ Len(pre.perfData) = 1
    /\ pre.perfData[1] # call.pd[1]
    /\ Len(es.perfData) = 3

(* C4: AddPerfData with an empty batch returns ErrNoPerformanceDataProvided *)
(* and leaves the ExitState as it was, whether skipValidate is set or not.  *)
C4_EmptyBatch ==
    (call.op = "AddPerfData" /\ Len(call.pd) = 0)
    => /\ call.err = ErrNoPerformanceDataProvided
       /\ es = pre

\* C4's case: an empty batch with skipValidate set, after metrics were
\* recorded.
C4_Witness ==
    /\ call.op = "AddPerfData"
    /\ Len(call.pd) = 0
    /\ call.skipValidate
    /\ Len(pre.perfData) > 0
    /\ call.err = ErrNoPerformanceDataProvided

(* C6: every entry of perfData that lacks its Label or its Value was        *)
(* appended by a call with skipValidate set; so when every call validated,  *)
(* every entry has a Label and a Value.                                     *)
C6_ValidUnlessSkipped ==
    /\ Len(log) = Len(es.perfData)
    /\ \A i \in 1..Len(es.perfData) :
        Lacking(es.perfData[i]) => log[i].skip

\* C6's case: perfData holds an entry appended by a validating call and an
\* entry without Label appended by a call that skipped validation, and the
\* last call, a validating one, was refused.
C6_Witness ==
    /\ Len(es.perfData) >= 2
    /\ \E i, j \in 1..Len(es.perfData) :
        /\ ~log[i].skip
        /\ ~Lacking(es.perfData[i])
        /\ log[j].skip
        /\ es.perfData[j].Label = <<>>
    /\ call.op = "AddPerfData"
    /\ ~call.skipValidate
    /\ call.err = ErrPerformanceDataMissingLabel

(* C7: Validate returns ErrPerformanceDataMissingLabel when Label is empty  *)
(* (Value empty or not), ErrPerformanceDataMissingValue when only Value is  *)
(* empty, and nil otherwise, whatever the other five fields hold; the       *)
(* ExitState is not changed.                                                *)
C7_Validate ==
    call.op = "Validate"
    => LET m == call.pd[1] IN
        /\ m.Label = <<>> => call.err = ErrPerformanceDataMissingLabel
        /\ (m.Label # <<>> /\ m.Value = <<>>)
            => call.err = ErrPerformanceDataMissingValue
        /\ (m.Label # <<>> /\ m.Value # <<>>) => call.err = NoError
        /\ es = pre

\* C7's case: Validate ran on a metric with Label and Value both empty and
\* the other five fields set.
C7_Witness ==
    /\ call.op = "Validate"
    /\ call.pd[1].Label = <<>>
    /\ call.pd[1].Value = <<>>
    /\ call.pd[1].UnitOfMeasurement # <<>>
    /\ call.pd[1].Warn # <<>>
    /\ call.pd[1].Crit # <<>>
    /\ call.pd[1].Min # <<>>
    /\ call.pd[1].Max # <<>>
    /\ call.err = ErrPerformanceDataMissingLabel

----------------------------------------------------------------------------
(* Claims about ReturnCheckResults. *)

\* The text of the (first) write to standard output.
Printed ==
    events[CHOOSE i \in 1..Len(events) :
              /\ events[i].op = "print"
              /\ \A j \in 1..(i - 1) : events[j].op # "print"].text

\* How many of the recorded effects are of kind op.
Count(op) == Cardinality({i \in 1..Len(events) : events[i].op = op})

\* "CRITICAL: plugin crash detected. See details via web UI or run plugin
\* manually via CLI."
CrashSummaryText ==
    <<"C","R","I","T","I","C","A","L",":"," ","p","l","u","g","i","n"," ",
      "c","r","a","s","h"," ","d","e","t","e","c","t","e","d","."," ","S",
      "e","e"," ","d","e","t","a","i","l","s"," ","v","i","a"," ","w","e",
      "b"," ","U","I"," ","o","r"," ","r","u","n"," ","p","l","u","g","i",
      "n"," ","m","a","n","u","a","l","l","y"," ","v","i","a"," ","C","L",
      "I",".">>

(* C1: when the finalizer recovered a panic, whatever ServiceOutput,        *)
(* LongServiceOutput and ExitStatusCode held before: the process exits with *)
(* code 2; ServiceOutput is the fixed CRITICAL text, which is also how the  *)
(* output starts; LongServiceOutput is exactly a fence, the end-of-line     *)
(* token, a message that contains the panic value's text (and is that text  *)
(* for a string or an error), two end-of-line tokens, the non-empty stack   *)
(* trace, the end-of-line token and a fence. Nothing of the caller's        *)
(* earlier content is part of them.                                         *)
C1_CrashOverride ==
    (pc = "exited" /\ fault # NoFault)
    => /\ events[Len(events)].op = "exit"
       /\ events[Len(events)].code = 2
       /\ es.ExitStatusCode = 2
       /\ es.ServiceOutput = CrashSummaryText
       /\ IsPrefix(CrashSummaryText, Printed)
       /\ Len(stackTrace) > 0
       /\ LET L == es.LongServiceOutput
              closing == CheckOutputEOL \o CheckOutputEOL \o stackTrace
                         \o CheckOutputEOL \o <<Grave, Grave, Grave>>
              opening == <<Grave, Grave, Grave>> \o CheckOutputEOL
              message == SubSeq(L, Len(opening) + 1, Len(L) - Len(closing))
          IN /\ Len(L) >= Len(opening) + Len(closing)
             /\ L = opening \o message \o closing
             /\ Contains(fault.text, message)
             /\ fault.kind \in {"string", "error"} => message = fault.text

\* C1's case: a panic was recovered when the caller had set a summary, a
\* long output and the UNKNOWN exit code.
C1_Witness ==
    /\ pc = "exited"
    /\ fault # NoFault
    /\ pre.ServiceOutput # <<>>
    /\ pre.LongServiceOutput # <<>>
    /\ pre.ExitStatusCode = StateUNKNOWNExitCode
    /\ es.ExitStatusCode = StateCRITICALExitCode

(* C5: the output starts with exactly the ServiceOutput the finalizer       *)
(* emits, nothing added, removed or substituted: it is ServiceOutput        *)
(* followed by the sections that come after the summary.                    *)
C5_SummaryVerbatim ==
    pc = "exited"
    => /\ IsPrefix(es.ServiceOutput, Printed)
       /\ Printed = es.ServiceOutput
                    \o Render([es EXCEPT !.ServiceOutput = <<>>])

(* C8: the output is the summary followed by the errors section, the       *)
(* thresholds section, the long-output section, the branding and the        *)
(* performance data, in this order (a summary without '%' is emitted as it  *)
(* is). With BrandingCallback set the branding is the end-of-line token,    *)
(* the callback's result and the token again, and the callback was called   *)
(* once, before the write; with no callback the branding is empty and       *)
(* nothing was called.                                                      *)
C8_SectionOrder ==
    pc = "exited"
    => LET branding ==
              IF es.BrandingCallback.set
              THEN CheckOutputEOL \o es.BrandingCallback.result
                   \o CheckOutputEOL
              ELSE <<>>
           sections == handleErrorsSection(es, <<>>)
                       \o handleThresholdsSection(es, <<>>)
                       \o handleLongServiceOutput(es, <<>>)
                       \o branding
                       \o handlePerformanceData(es, <<>>)
           summary == SubSeq(Printed, 1, Len(Printed) - Len(sections))
       IN /\ Len(sections) <= Len(Printed)
          /\ Printed = summary \o sections
          /\ (\A i \in 1..Len(es.ServiceOutput) : es.ServiceOutput[i] # "%")
                => summary = es.ServiceOutput
          /\ Count("callback") = IF es.BrandingCallback.set THEN 1 ELSE 0
          /\ es.BrandingCallback.set => events[1].op = "callback"

\* C8's case: the finalizer ran with errors, thresholds, long output,
\* branding and performance data all to render.
C8_Witness ==
    /\ pc = "exited"
    /\ fault = NoFault
    /\ handleErrorsSection(es, <<>>) # <<>>
    /\ handleThresholdsSection(es, <<>>) # <<>>
    /\ handleLongServiceOutput(es, <<>>) # <<>>
    /\ es.BrandingCallback.set
    /\ handlePerformanceData(es, <<>>) # <<>>

(* C9: when no panic was recovered the process exits with exactly the       *)
(* ExitStatusCode the caller set, whatever integer it is; the exit is the   *)
(* last effect, there is exactly one, and it comes right after the one      *)
(* write to standard output. Before the finalizer runs nothing is written   *)
(* and the process has not exited.                                          *)
C9_ExitCodePassThrough ==
    /\ pc = "running" => (Count("exit") = 0 /\ Count("print") = 0)
    /\ (pc = "exited" /\ fault = NoFault)
       => /\ Len(events) >= 2
          /\ events[Len(events)].op = "exit"
          /\ events[Len(events)].code = pre.ExitStatusCode
          /\ events[Len(events) - 1].op = "print"
          /\ Count("exit") = 1
          /\ Count("print") = 1

\* C9's case: the finalizer ran without a panic when the caller had set
\* the exit code 256.
C9_Witness ==
    /\ pc = "exited"
    /\ fault = NoFault
    /\ pre.ExitStatusCode = 256
    /\ events[Len(events)].code = 256

(* C10: after a recovered panic Errors is what it was followed by one       *)
(* error that wraps ErrPanicDetected and carries the panic value's text;    *)
(* apart from Errors, ServiceOutput, LongServiceOutput and ExitStatusCode   *)
(* every field is as it was, and the performance data, thresholds and       *)
(* branding recorded before the panic are in the output. With no panic the  *)
(* finalizer leaves the whole ExitState as it was.                          *)
C10_Frame ==
    pc = "exited"
    => IF fault # NoFault
       THEN /\ Len(es.Errors) = Len(pre.Errors) + 1
            /\ SubSeq(es.Errors, 1, Len(pre.Errors)) = pre.Errors
            /\ es.Errors[Len(es.Errors)].wraps = "ErrPanicDetected"
            /\ IsPrefix(ErrPanicDetected.msg, es.Errors[Len(es.Errors)].msg)
            /\ Contains(fault.text, es.Errors[Len(es.Errors)].msg)
            /\ [es EXCEPT !.Errors = pre.Errors,
                          !.ServiceOutput = pre.ServiceOutput,
                          !.LongServiceOutput = pre.LongServiceOutput,
                          !.ExitStatusCode = pre.ExitStatusCode] = pre
            /\ Contains(handlePerformanceData(pre, <<>>), Printed)
            /\ Contains(handleThresholdsSection(pre, <<>>), Printed)
            /\ pre.BrandingCallback.set
                => Contains(CheckOutputEOL \o pre.BrandingCallback.result
                            \o CheckOutputEOL, Printed)
       ELSE es = pre

\* C10's case: a panic was recovered after two different errors, metrics,
\* both thresholds, custom labels, a hide flag and a branding callback had
\* been recorded.
C10_Witness ==
    /\ pc = "exited"
    /\ fault # NoFault
    /\ Len(pre.Errors) = 2
    /\ pre.Errors[1] # pre.Errors[2]
    /\ Len(pre.perfData) > 0
    /\ pre.WarningThreshold # <<>>
    /\ pre.CriticalThreshold # <<>>
    /\ pre.errorsLabel # <<>>
    /\ pre.thresholdsLabel # <<>>
    /\ pre.detailedInfoLabel # <<>>
    /\ pre.hideErrorsSection
    /\ pre.BrandingCallback.set
    /\ Len(es.Errors) = 3

====
